---- MODULE Spec2Model ----
(***************************************************************************)
(* A model of cremi_python: the Annotations container                      *)
(* (cremi/Annotations.py) and the container adapters AbstractCremiFile,    *)
(* CremiFile and CremiN5 (cremi/io/CremiFile.py).                          *)
(*                                                                         *)
(* Python objects that can be shared (lists and dicts held by an           *)
(* Annotations instance) live in a heap of cells and are reached through   *)
(* references, so that copying an instance and mutating the copy is        *)
(* something the model can get wrong.  A call that raises leaves whatever  *)
(* it had already done in place.                                           *)
(***************************************************************************)
EXTENDS Integers, Sequences, FiniteSets, TLC

VARIABLES heap, objs, live, alast, file, handle, flast, disk, handles, written, nwrites

avars == <<heap, objs, live, alast>>
fvars == <<file, handle, flast, disk, handles, written, nwrites>>
vars == <<heap, objs, live, alast, file, handle, flast, disk, handles, written, nwrites>>

(***************************************************************************)
(* Bounds of the model.                                                    *)
(***************************************************************************)
\* the longest id sequence an Annotations instance is grown to
MaxAnn == 2
\* the longest partner list an Annotations instance is grown to
MaxPartners == 1

Ids == {1, 2}
Types == {"presynaptic_site", "postsynaptic_site"}
\* the types the two-instance specification adds
OneType == {"presynaptic_site"}
Locations == {<<10, 20, 30>>, <<15, 20, 30>>}
OneLocation == {<<10, 20, 30>>}
Offsets == {<<0, 0, 0>>, <<1, 2, 3>>}
CommentTexts == {"near vesicle cluster"}
ObjNames == {"a", "b"}
KeyFns == {"None", "by_comment_len"}

Range(s) == {s[i] : i \in DOMAIN s}

(***************************************************************************)
(* str.encode('utf8') and bytes.decode('utf-8'): text and its bytes are    *)
(* different values.                                                       *)
(***************************************************************************)
encode(s) == [utf8 |-> s]

decode(b) == b.utf8

\* d[k] = v on a dict
DictSet(d, k, v) == [i \in (DOMAIN d) \cup {k} |-> IF i = k THEN v ELSE d[i]]

EmptyDict == [i \in {} |-> 0]

(***************************************************************************)
(* Annotations, as a value: what the five containers and the offset hold.  *)
(***************************************************************************)
Annotations__init__(offset) ==
    [ids |-> <<>>, types |-> EmptyDict, locations |-> EmptyDict,
     comments |-> EmptyDict, pre_post_partners |-> <<>>, offset |-> offset]

\* __check: does the lookup raise?
__check_alt(v, id) == FALSE
__check(v, id) == id \notin DOMAIN v.types

add_annotation(v, id, type, location) ==
    [v EXCEPT !.ids = Append(@, id),
              !.types = DictSet(@, id, encode(type)),
              !.locations = DictSet(@, id, location)]

\* the calls that can raise return the new value and whether they raised
add_comment(v, id, comment) ==
    IF __check(v, id)
    THEN [v |-> v, raised |-> TRUE]
    ELSE [v |-> [v EXCEPT !.comments = DictSet(@, id, encode(comment))],
          raised |-> FALSE]

set_pre_post_partners_alt(v, pre_id, post_id) ==
    IF __check(v, pre_id)
    THEN [v |-> v, raised |-> TRUE]
    ELSE [v |-> [v EXCEPT !.pre_post_partners = Append(@, <<pre_id, post_id>>)],
          raised |-> FALSE]
set_pre_post_partners(v, pre_id, post_id) ==
    IF __check(v, pre_id) \/ __check(v, post_id)
    THEN [v |-> v, raised |-> TRUE]
    ELSE [v |-> [v EXCEPT !.pre_post_partners = Append(@, <<pre_id, post_id>>)],
          raised |-> FALSE]

get_annotation(v, id) ==
    IF __check(v, id)
    THEN [ret |-> <<>>, raised |-> TRUE]
    ELSE [ret |-> <<v.types[id], v.locations[id]>>, raised |-> FALSE]

ids(v) == v.ids

types(v) == [i \in DOMAIN v.ids |-> v.types[v.ids[i]]]

locations(v) == [i \in DOMAIN v.ids |-> v.locations[v.ids[i]]]

(***************************************************************************)
(* sort: the key functions a caller passes (None: the id itself), and      *)
(* list.sort, which is stable also under reverse=True.                     *)
(***************************************************************************)
\* key_fn None sorts by id; the other key a caller passes here is
\* lambda id, **kw: len(kw["comment"]), and comments.get(id_, '') is empty
\* for an id without a comment
CommentLen(c) == IF c = encode("again") THEN 5 ELSE 20

full_key(v, key_fn, id) ==
    IF key_fn = "None" THEN id
    ELSE IF id \in DOMAIN v.comments THEN CommentLen(v.comments[id]) ELSE 0

\* x placed behind every element that does not sort strictly after it
Insert(v, key_fn, s, x, reverse) ==
    LET kx == full_key(v, key_fn, x)
        after(i) == IF reverse THEN full_key(v, key_fn, s[i]) < kx
                    ELSE full_key(v, key_fn, s[i]) > kx
        P == {i \in DOMAIN s : after(i)}
        p == IF P = {} THEN Len(s) + 1 ELSE CHOOSE i \in P : \A j \in P : i <= j
    IN SubSeq(s, 1, p - 1) \o <<x>> \o SubSeq(s, p, Len(s))

RECURSIVE list_sort(_, _, _, _)
list_sort(v, key_fn, s, reverse) ==
    IF s = <<>> THEN <<>>
    ELSE LET n == Len(s)
         IN Insert(v, key_fn, list_sort(v, key_fn, SubSeq(s, 1, n - 1), reverse), s[n], reverse)

sort_in_place(v, key_fn, reverse) ==
    [v EXCEPT !.ids = list_sort(v, key_fn, v.ids, reverse)]

(***************************************************************************)
(* Annotations instances on the heap.  An instance is its references; the  *)
(* two names a caller holds, "a" and "b", have five cells each to          *)
(* allocate from.                                                          *)
(***************************************************************************)
Base(x) == IF x = "a" THEN 0 ELSE 5

Fresh(x, offset) ==
    [ids |-> Base(x) + 1, types |-> Base(x) + 2, locations |-> Base(x) + 3,
     comments |-> Base(x) + 4, pre_post_partners |-> Base(x) + 5, offset |-> offset]

Load(h, o) ==
    [ids |-> h[o.ids], types |-> h[o.types], locations |-> h[o.locations],
     comments |-> h[o.comments], pre_post_partners |-> h[o.pre_post_partners],
     offset |-> o.offset]

Store(h, o, v) ==
    [c \in DOMAIN h |->
        IF c = o.ids THEN v.ids
        ELSE IF c = o.types THEN v.types
        ELSE IF c = o.locations THEN v.locations
        ELSE IF c = o.comments THEN v.comments
        ELSE IF c = o.pre_post_partners THEN v.pre_post_partners
        ELSE h[c]]

\* copy.copy in place of copy.deepcopy: the clone shares every container
copy(h, o, base) == [heap |-> h, obj |-> o]
\* the clone's containers are new cells, from base + 1 on
deepcopy(h, o, base) ==
    LET n == [ids |-> base + 1, types |-> base + 2, locations |-> base + 3,
              comments |-> base + 4, pre_post_partners |-> base + 5, offset |-> o.offset]
    IN [heap |-> Store(h, n, Load(h, o)), obj |-> n]

\* sort(key_fn, reverse, in_place=False): the clone, sorted in place
sort(h, o, key_fn, reverse, base) ==
    LET c == deepcopy(h, o, base)
        sorted == sort_in_place(Load(c.heap, c.obj), key_fn, reverse)
    IN [heap |-> [c.heap EXCEPT ![c.obj.ids] = sorted.ids], obj |-> c.obj]

Obj(x) == Load(heap, objs[x])

Cells(o) == {o.ids, o.types, o.locations, o.comments, o.pre_post_partners}

\* a container no instance refers to any more is freed
Collect(h, os, lv) ==
    [c \in DOMAIN h |-> IF \E x \in lv : c \in Cells(os[x]) THEN h[c] ELSE <<>>]

Call(op, x, args, raised, ret) ==
    [op |-> op, obj |-> x, args |-> args, raised |-> raised, ret |-> ret]

do_add_annotation(x, TypeSet, LocationSet) ==
    \E id \in Ids, type \in TypeSet, location \in LocationSet :
        /\ x \in live
        /\ Len(Obj(x).ids) < MaxAnn
        /\ heap' = Store(heap, objs[x], add_annotation(Obj(x), id, type, location))
        /\ alast' = Call("add_annotation", x, <<>>, FALSE, <<>>)
        /\ UNCHANGED <<objs, live>>

do_add_comment(x) ==
    \E id \in Ids, comment \in CommentTexts :
        LET r == add_comment(Obj(x), id, comment)
        IN /\ x \in live
           /\ heap' = Store(heap, objs[x], r.v)
           /\ alast' = Call("add_comment", x, <<id>>, r.raised, <<>>)
           /\ UNCHANGED <<objs, live>>

do_set_pre_post_partners(x) ==
    \E pre_id \in Ids, post_id \in Ids :
        LET r == set_pre_post_partners(Obj(x), pre_id, post_id)
        IN /\ x \in live
           /\ Len(Obj(x).pre_post_partners) < MaxPartners
           /\ heap' = Store(heap, objs[x], r.v)
           /\ alast' = Call("set_pre_post_partners", x, <<pre_id, post_id>>, r.raised, <<>>)
           /\ UNCHANGED <<objs, live>>

do_get_annotation(x) ==
    \E id \in Ids :
        LET r == get_annotation(Obj(x), id)
        IN /\ x \in live
           /\ alast' = Call("get_annotation", x, <<id>>, r.raised, r.ret)
           /\ UNCHANGED <<heap, objs, live>>

\* x.sort(key_fn, reverse, in_place=True)
do_sort_in_place(x) ==
    \E key_fn \in KeyFns, reverse \in BOOLEAN :
        /\ x \in live
        /\ heap' = [heap EXCEPT ![objs[x].ids] = sort_in_place(Obj(x), key_fn, reverse).ids]
        /\ alast' = Call("sort", x, <<key_fn, reverse, TRUE>>, FALSE, <<>>)
        /\ UNCHANGED <<objs, live>>

\* y = x.sort(key_fn, reverse, in_place=False), x and y two names
do_sort(x, y) ==
    \E key_fn \in KeyFns, reverse \in BOOLEAN :
        LET c == sort(heap, objs[x], key_fn, reverse, Base(y))
        IN /\ x \in live
           /\ x # y
           /\ heap' = c.heap
           /\ objs' = [objs EXCEPT ![y] = c.obj]
           /\ live' = live \cup {y}
           /\ alast' = Call("sort", x, <<key_fn, reverse, FALSE>>, FALSE, <<y>>)

\* x = x.sort(key_fn, reverse, in_place=False): the name is bound to the
\* clone, whose cells are the ones the old instance does not use
do_sort_rebind(x) ==
    \E key_fn \in KeyFns, reverse \in BOOLEAN :
        LET c == sort(heap, objs[x], key_fn, reverse, IF objs[x].ids = 1 THEN 5 ELSE 0)
        IN /\ x \in live
           /\ objs' = [objs EXCEPT ![x] = c.obj]
           /\ heap' = Collect(c.heap, objs', live)
           /\ alast' = Call("sort", x, <<key_fn, reverse, FALSE>>, FALSE, <<x>>)
           /\ UNCHANGED live

InitAnn ==
    /\ \E offset \in Offsets :
          /\ objs = [x \in ObjNames |-> Fresh(x, offset)]
          /\ heap = Store([c \in 1..10 |-> <<>>], Fresh("a", offset), Annotations__init__(offset))
    /\ alast = Call("__init__", "a", <<>>, FALSE, <<>>)
    /\ live = {"a"}
    /\ file = 0 /\ handle = 0 /\ flast = 0 /\ disk = 0 /\ handles = 0
    /\ written = 0 /\ nwrites = 0

(***************************************************************************)
(* The hierarchical container an adapter writes to (h5py.File, or          *)
(* z5py.N5File behind the same calls): groups, datasets by path, and       *)
(* attributes by node.  A path "/volumes/raw" is <<"volumes", "raw">>, the *)
(* root is <<>>.  A sequence of container calls runs on a record of the    *)
(* container, the exception raised so far, and the dataset calls issued;   *)
(* once something has raised, nothing further runs.                        *)
(***************************************************************************)
DictDel(d, k) == [i \in (DOMAIN d) \ {k} |-> d[i]]

Reverse(seq) == [i \in DOMAIN seq |-> seq[Len(seq) + 1 - i]]

Prefixes(path) == {SubSeq(path, 1, k) : k \in 1..Len(path)}

Front(path) == SubSeq(path, 1, Len(path) - 1)

EmptyFile == [groups |-> {}, ds |-> EmptyDict, attrs |-> EmptyDict]

Run(f) == [file |-> f, err |-> "none", trace |-> <<>>]

\* name in self.file
Exists(f, path) == path = <<>> \/ path \in f.groups \/ path \in DOMAIN f.ds

Attrs(f, node) == IF node \in DOMAIN f.attrs THEN f.attrs[node] ELSE EmptyDict

\* self.file[node].attrs[name] = value
attrs_set(m, node, name, value) ==
    IF m.err # "none" THEN m
    ELSE IF ~Exists(m.file, node) THEN [m EXCEPT !.err = "KeyError"]
    ELSE [m EXCEPT !.file.attrs = DictSet(@, node, DictSet(Attrs(m.file, node), name, value))]

\* create_group raises ValueError on a name that exists; _create_group
\* passes over it
_create_group(m, group) ==
    IF m.err # "none" THEN m
    ELSE [m EXCEPT !.file.groups = @ \cup {g \in Prefixes(group) : ~Exists(m.file, g)}]

\* self.file.create_dataset(path, data=, dtype=, compression=, chunks=)
create_dataset(m, path, data, dtype, compression, chunks) ==
    IF m.err # "none" THEN m
    ELSE LET m1 == [m EXCEPT !.trace = Append(@, "CREATE")]
         IN IF Exists(m.file, path)
            THEN [m1 EXCEPT !.err = "ValueError"]
            ELSE [m1 EXCEPT !.file.groups = @ \cup Prefixes(Front(path)),
                            !.file.ds = DictSet(@, path,
                                [dtype |-> dtype, shape |-> data.shape, data |-> data.flat,
                                 compression |-> compression, chunks |-> chunks])]

\* without line 57: an incompatible dataset is left where it is
_replace_compatible_dataset_nodel(m, path, data, dtype) ==
    IF m.err # "none" THEN m
    ELSE LET m1 == _create_group(m, Front(path))
         IN IF path \in DOMAIN m1.file.ds
               /\ m1.file.ds[path].dtype = dtype /\ m1.file.ds[path].shape = data.shape
            THEN [m1 EXCEPT !.trace = Append(@, "OVERWRITE_IN_PLACE"),
                            !.file.ds[path].data = data.flat]
            ELSE m1
_replace_compatible_dataset(m, path, data, dtype) ==
    IF m.err # "none" THEN m
    ELSE LET m1 == _create_group(m, Front(path))
         IN IF Exists(m1.file, path)
            THEN IF path \notin DOMAIN m1.file.ds
                 THEN [m1 EXCEPT !.err = "AttributeError"]
                 ELSE IF m1.file.ds[path].dtype = dtype /\ m1.file.ds[path].shape = data.shape
                      THEN [m1 EXCEPT !.trace = Append(@, "OVERWRITE_IN_PLACE"),
                                      !.file.ds[path].data = data.flat]
                      ELSE [m1 EXCEPT !.trace = Append(@, "DELETE"),
                                      !.file.ds = DictDel(@, path),
                                      !.file.attrs = DictDel(@, path)]
            ELSE m1

NoChunks == [given |-> FALSE, dims |-> <<>>]

AbstractCremiFile__create_dataset(m, path, data, dtype, compression) ==
    create_dataset(_replace_compatible_dataset(m, path, data, dtype),
                   path, data, dtype, compression, NoChunks)

Max(a, b) == IF a >= b THEN a ELSE b

Min(a, b) == IF a <= b THEN a ELSE b

\* [max(c, s) for c, s in zip(self.chunks, data.shape)]
ChunkShape(chunks, shape) ==
    [i \in 1..Min(Len(chunks), Len(shape)) |-> Max(chunks[i], shape[i])]

\* zip(None, ...) raises TypeError
CremiN5__create_dataset(m, chunks, path, data, dtype, compression) ==
    LET m1 == _replace_compatible_dataset(m, path, data, dtype)
    IN IF m1.err # "none" THEN m1
       ELSE IF ~chunks.given THEN [m1 EXCEPT !.err = "TypeError"]
       ELSE create_dataset(m1, path, data, dtype, compression,
                           [given |-> TRUE, dims |-> ChunkShape(chunks.dims, data.shape)])

_create_dataset(m, h, path, data, dtype, compression) ==
    IF h.backend = "A"
    THEN AbstractCremiFile__create_dataset(m, path, data, dtype, compression)
    ELSE CremiN5__create_dataset(m, h.chunks, path, data, dtype, compression)

AbstractCremiFile__spatial(sequence) == sequence

\* sequence[1:] + sequence[:1] in place of sequence[::-1]
CremiN5__spatial_rot(sequence) == [i \in DOMAIN sequence |-> sequence[(i % Len(sequence)) + 1]]
CremiN5__spatial(sequence) == Reverse(sequence)

_spatial(h, sequence) ==
    IF h.backend = "A" THEN AbstractCremiFile__spatial(sequence) ELSE CremiN5__spatial(sequence)

(***************************************************************************)
(* Volumes.  A Volume is its array, resolution, offset and comment (<<>>   *)
(* for None, else <<text>>); an array is its shape and its elements.       *)
(***************************************************************************)
Volume(data) ==
    [data |-> data, resolution |-> <<1, 1, 1>>, offset |-> <<0, 0, 0>>, comment |-> <<>>]

write_volume(m, h, volume, ds_name, dtype) ==
    LET m1 == _create_dataset(m, h, ds_name, volume.data, dtype, "gzip")
        m2 == attrs_set(m1, ds_name, "resolution", _spatial(h, volume.resolution))
        m3 == attrs_set(m2, ds_name, "offset", _spatial(h, volume.offset))
    IN IF volume.comment # <<>>
       THEN attrs_set(m3, ds_name, "comment", volume.comment[1])
       ELSE m3

\* the Volume read, and the exception raised if any
read_volume(f, h, ds_name) ==
    IF ds_name \notin DOMAIN f.ds THEN [err |-> "KeyError", ret |-> <<>>]
    ELSE IF "resolution" \notin DOMAIN Attrs(f, ds_name) THEN [err |-> "KeyError", ret |-> <<>>]
    ELSE LET a == Attrs(f, ds_name)
             v0 == Volume([shape |-> f.ds[ds_name].shape, flat |-> f.ds[ds_name].data])
             v1 == [v0 EXCEPT !.resolution = _spatial(h, a["resolution"])]
             v2 == IF "offset" \in DOMAIN a
                   THEN [v1 EXCEPT !.offset = _spatial(h, a["offset"])] ELSE v1
             v3 == IF "comment" \in DOMAIN a
                   THEN [v2 EXCEPT !.comment = <<a["comment"]>>] ELSE v2
         IN [err |-> "none", ret |-> <<v3>>]

RawPath == <<"volumes", "raw">>

(***************************************************************************)
(* Adapters on a container they have just created.                         *)
(***************************************************************************)
ChunkChoices == {NoChunks, [given |-> TRUE, dims |-> <<1, 1, 1>>], [given |-> TRUE, dims |-> <<2, 2, 2>>]}

\* CremiFile(filename, "a") and CremiN5(filename, chunks) on a new name
Handles ==
    {[backend |-> "A", chunks |-> NoChunks, mode |-> "a"]}
    \cup {[backend |-> "B", chunks |-> c, mode |-> "a"] : c \in ChunkChoices}

NewFile == [EmptyFile EXCEPT !.attrs = DictSet(@, <<>>, DictSet(EmptyDict, "file_format", "0.2"))]

Arrays ==
    {[shape |-> <<1, 1, 1>>, flat |-> <<7>>], [shape |-> <<1, 1, 1>>, flat |-> <<9>>],
     [shape |-> <<2, 1, 1>>, flat |-> <<7, 9>>]}

Resolutions == {<<4, 4, 40>>}

Volumes ==
    {[data |-> d, resolution |-> r, offset |-> o, comment |-> c] :
        d \in Arrays, r \in Resolutions, o \in Offsets, c \in {<<>>, <<"a comment">>}}

VolumeDtypes == {"uint8", "uint64"}

FCall(op, path, dtype, input, m, ret) ==
    [op |-> op, path |-> path, dtype |-> dtype, input |-> input,
     err |-> m.err, trace |-> m.trace, ret |-> ret]

do_write_volume ==
    \E volume \in Volumes, dtype \in VolumeDtypes :
        LET m == write_volume(Run(file), handle, volume, RawPath, dtype)
        IN /\ file' = m.file
           /\ flast' = FCall("write_volume", RawPath, dtype, <<volume>>, m, <<>>)
           /\ UNCHANGED <<handle, disk, handles, written, nwrites>>

do_read_volume ==
    LET r == read_volume(file, handle, RawPath)
    IN /\ flast' = FCall("read_volume", RawPath, "", <<>>, [err |-> r.err, trace |-> <<>>], r.ret)
       /\ UNCHANGED <<file, handle, disk, handles, written, nwrites>>

InitVol ==
    /\ handle \in Handles
    /\ file = NewFile
    /\ flast = FCall("__init__", <<>>, "", <<>>, Run(file), <<>>)
    /\ disk = 0 /\ handles = 0 /\ written = 0 /\ nwrites = 0
    /\ heap = <<>> /\ objs = <<>> /\ live = {} /\ alast = 0

VolWrite == do_write_volume /\ UNCHANGED avars

VolRead == do_read_volume /\ UNCHANGED avars

NextVol == VolWrite \/ VolRead

SpecVol == InitVol /\ [][NextVol]_vars

(***************************************************************************)
(* Annotations in the container.  The lists handed to _create_dataset are  *)
(* arrays of shape (N,), (N, 3) for the locations and (M, 2) for the       *)
(* partners; ids are small and non-negative, so uint64 holds them as they  *)
(* are.                                                                    *)
(***************************************************************************)
AnnPath == <<"annotations">>

List1(seq) == [shape |-> <<Len(seq)>>, flat |-> seq]

List2(seq, width) == [shape |-> <<Len(seq), width>>, flat |-> seq]

\* keys and values of lines 127-132: the ids that have a comment, in id order
RECURSIVE CommentKeys(_, _)
CommentKeys(v, seq) ==
    IF seq = <<>> THEN <<>>
    ELSE LET rest == CommentKeys(v, Tail(seq))
         IN IF Head(seq) \in DOMAIN v.comments THEN <<Head(seq)>> \o rest ELSE rest

write_annotations(m, h, annotations) ==
    IF Len(ids(annotations)) = 0 THEN m
    ELSE
    LET m1 == _create_group(m, AnnPath)
        m2 == attrs_set(m1, AnnPath, "offset", _spatial(h, annotations.offset))
        m3 == _create_dataset(m2, h, <<"annotations", "ids">>,
                              List1(ids(annotations)), "uint64", "None")
        m4 == _create_dataset(m3, h, <<"annotations", "types">>,
                              List1(types(annotations)), "unicode", "gzip")
        locs == locations(annotations)
        m5 == _create_dataset(m4, h, <<"annotations", "locations">>,
                              List2([i \in DOMAIN locs |-> _spatial(h, locs[i])], 3),
                              "double", "None")
        keys == CommentKeys(annotations, ids(annotations))
        values == [i \in DOMAIN keys |-> annotations.comments[keys[i]]]
        m6 == IF Cardinality(DOMAIN annotations.comments) > 0
              THEN _create_dataset(
                       _create_dataset(m5, h, <<"annotations", "comments", "target_ids">>,
                                       List1(keys), "uint64", "None"),
                       h, <<"annotations", "comments", "comments">>,
                       List1(values), "unicode", "None")
              ELSE m5
    IN IF Len(annotations.pre_post_partners) > 0
       THEN _create_dataset(m6, h, <<"annotations", "presynaptic_site", "partners">>,
                            List2(annotations.pre_post_partners, 2), "uint64", "None")
       ELSE m6

\* the loops of read_annotations; zip stops at the shortest dataset
RECURSIVE ReadAnnotations(_, _, _, _, _, _)
ReadAnnotations(v, h, idl, tyl, lol, i) ==
    IF i > Len(idl) \/ i > Len(tyl) \/ i > Len(lol) THEN v
    ELSE ReadAnnotations(add_annotation(v, idl[i], decode(tyl[i]), _spatial(h, lol[i])),
                         h, idl, tyl, lol, i + 1)

RECURSIVE ReadComments(_, _, _, _)
ReadComments(r, idl, col, i) ==
    IF r.raised \/ i > Len(idl) \/ i > Len(col) THEN r
    ELSE ReadComments(add_comment(r.v, idl[i], decode(col[i])), idl, col, i + 1)

RECURSIVE ReadPartners(_, _, _)
ReadPartners(r, pl, i) ==
    IF r.raised \/ i > Len(pl) THEN r
    ELSE ReadPartners(set_pre_post_partners(r.v, pl[i][1], pl[i][2]), pl, i + 1)

Raised(e) == [err |-> e, ret |-> <<>>]

read_annotations(f, h) ==
    LET a0 == Annotations__init__(<<0, 0, 0>>)
        P(name) == <<"annotations", name>>
        CP(name) == <<"annotations", "comments", name>>
        PP == <<"annotations", "presynaptic_site", "partners">>
    IN
    IF ~Exists(f, AnnPath) THEN [err |-> "none", ret |-> <<a0>>]
    ELSE IF \E n \in {"ids", "types", "locations"} : P(n) \notin DOMAIN f.ds
    THEN Raised("KeyError")
    ELSE
    LET a1 == [a0 EXCEPT !.offset = IF "offset" \in DOMAIN Attrs(f, AnnPath)
                                    THEN _spatial(h, Attrs(f, AnnPath)["offset"])
                                    ELSE <<0, 0, 0>>]
        a2 == ReadAnnotations(a1, h, f.ds[P("ids")].data, f.ds[P("types")].data,
                              f.ds[P("locations")].data, 1)
        r2 == [v |-> a2, raised |-> FALSE]
    IN
    IF Exists(f, P("comments")) /\ \E n \in {"target_ids", "comments"} : CP(n) \notin DOMAIN f.ds
    THEN Raised("KeyError")
    ELSE
    LET r3 == IF Exists(f, P("comments"))
              THEN ReadComments(r2, f.ds[CP("target_ids")].data, f.ds[CP("comments")].data, 1)
              ELSE r2
        r4 == IF PP \in DOMAIN f.ds THEN ReadPartners(r3, f.ds[PP].data, 1) ELSE r3
    IN IF r4.raised THEN Raised("TypeError") ELSE [err |-> "none", ret |-> <<r4.v>>]

\* Annotations instances a caller builds through the calls above
L1 == <<10, 20, 30>>

L2 == <<15, 20, 30>>

Ann1(offset) == add_annotation(Annotations__init__(offset), 1, "presynaptic_site", L1)

Ann12(offset) == add_annotation(Ann1(offset), 2, "postsynaptic_site", L2)

\* the scenario of two sites, one link and one comment
AnnExample(offset) ==
    add_comment(set_pre_post_partners(Ann12(offset), 1, 2).v, 1, "near vesicle cluster").v

AnnRepeated(offset) ==
    add_comment(add_annotation(Ann1(offset), 1, "postsynaptic_site", L2), 1, "again").v

Ann2(offset) == add_annotation(Annotations__init__(offset), 2, "postsynaptic_site", L2)

AnnSets ==
    {Annotations__init__(<<0, 0, 0>>), Annotations__init__(<<1, 2, 3>>),
     Ann1(<<1, 2, 3>>), Ann2(<<0, 0, 0>>), Ann12(<<0, 0, 0>>),
     AnnExample(<<1, 2, 3>>), AnnRepeated(<<0, 0, 0>>)}

do_write_annotations ==
    \E annotations \in AnnSets :
        LET m == write_annotations(Run(file), handle, annotations)
        IN /\ file' = m.file
           /\ flast' = FCall("write_annotations", AnnPath, "", <<annotations>>, m, <<>>)
           /\ written' = <<annotations>>
           /\ nwrites' = IF nwrites = "none" THEN "one" ELSE "many"
           /\ UNCHANGED <<handle, disk, handles>>

do_read_annotations ==
    LET r == read_annotations(file, handle)
    IN /\ flast' = FCall("read_annotations", AnnPath, "", <<>>,
                         [err |-> r.err, trace |-> <<>>], r.ret)
       /\ UNCHANGED <<file, handle, disk, handles, written, nwrites>>

(***************************************************************************)
(* SpecIO: write_annotations and read_annotations on a new container.      *)
(***************************************************************************)
InitIO ==
    /\ handle \in Handles
    /\ file = NewFile
    /\ flast = FCall("__init__", <<>>, "", <<>>, Run(file), <<>>)
    /\ written = <<>>
    /\ nwrites = "none"
    /\ disk = 0 /\ handles = 0
    /\ heap = <<>> /\ objs = <<>> /\ live = {} /\ alast = 0

IOWrite == do_write_annotations /\ UNCHANGED avars

IORead == do_read_annotations /\ UNCHANGED avars

NextIO == IOWrite \/ IORead

SpecIO == InitIO /\ [][NextIO]_vars

(***************************************************************************)
(* Opening and closing adapters.  disk holds, by file name, whether the    *)
(* container exists and what it holds, and whether z5py can be imported;   *)
(* handles holds the adapters that are open.                               *)
(***************************************************************************)
H5Names == {"example.h5", "output.h5"}

N5Names == {"output.n5"}

\* the modes of h5py.File
Modes == {"r", "r+", "w", "w-", "x", "a"}

Absent == [exists |-> FALSE, file |-> EmptyFile]

Present(f) == [exists |-> TRUE, file |-> f]

Closed == [open |-> FALSE, backend |-> "", mode |-> ""]

\* h5py.File(filename, mode): the container afterwards, or the error
h5py_File(entry, mode) ==
    IF mode \in {"r", "r+"}
    THEN IF entry.exists THEN [err |-> "none", entry |-> entry]
         ELSE [err |-> "IOError", entry |-> entry]
    ELSE IF mode = "w" THEN [err |-> "none", entry |-> Present(EmptyFile)]
    ELSE IF mode \in {"w-", "x"}
    THEN IF entry.exists THEN [err |-> "IOError", entry |-> entry]
         ELSE [err |-> "none", entry |-> Present(EmptyFile)]
    ELSE [err |-> "none", entry |-> IF entry.exists THEN entry ELSE Present(EmptyFile)]

SetFormat(entry) ==
    Present(attrs_set(Run(entry.file), <<>>, "file_format", "0.2").file)

CremiFile__init__(entry, mode) ==
    LET r == h5py_File(entry, mode)
    IN IF r.err # "none" THEN r
       ELSE IF mode = "w" \/ mode = "a"
       THEN [err |-> "none", entry |-> SetFormat(r.entry)]
       ELSE r

\* z5py.N5File(filename) opens or creates the store
CremiN5__init__(entry, z5py) ==
    IF ~z5py THEN [err |-> "RuntimeError", entry |-> entry]
    ELSE [err |-> "none", entry |-> SetFormat(IF entry.exists THEN entry ELSE Present(EmptyFile))]

HasFormat(entry) ==
    /\ entry.exists
    /\ "file_format" \in DOMAIN Attrs(entry.file, <<>>)
    /\ Attrs(entry.file, <<>>)["file_format"] = "0.2"

OCall(op, name, mode, err, had) ==
    [op |-> op, name |-> name, mode |-> mode, err |-> err, had |-> had]

do_CremiFile ==
    \E name \in H5Names, mode \in Modes :
        LET r == CremiFile__init__(disk.store[name], mode)
        IN /\ ~handles[name].open
           /\ disk' = [disk EXCEPT !.store[name] = r.entry]
           /\ handles' = IF r.err = "none"
                          THEN [handles EXCEPT ![name] = [open |-> TRUE, backend |-> "A", mode |-> mode]]
                          ELSE handles
           /\ flast' = OCall("CremiFile", name, mode, r.err, HasFormat(disk.store[name]))
           /\ UNCHANGED <<file, handle, written, nwrites>>

do_CremiN5 ==
    \E name \in N5Names :
        LET r == CremiN5__init__(disk.store[name], disk.z5py)
        IN /\ ~handles[name].open
           /\ disk' = [disk EXCEPT !.store[name] = r.entry]
           /\ handles' = IF r.err = "none"
                          THEN [handles EXCEPT ![name] = [open |-> TRUE, backend |-> "B", mode |-> "a"]]
                          ELSE handles
           /\ flast' = OCall("CremiN5", name, "a", r.err, HasFormat(disk.store[name]))
           /\ UNCHANGED <<file, handle, written, nwrites>>

\* close(), and leaving a with block (which closes a CremiFile only)
do_close ==
    \E name \in H5Names \cup N5Names :
        /\ handles[name].open
        /\ handles' = [handles EXCEPT ![name] = Closed]
        /\ flast' = OCall("close", name, "", "none", HasFormat(disk.store[name]))
        /\ UNCHANGED <<file, handle, disk, written, nwrites>>

\* a name holds nothing yet, or a container some other program wrote
InitOpen ==
    /\ disk \in [z5py : BOOLEAN,
                  store : [H5Names \cup N5Names -> {Absent, Present(EmptyFile)}]]
    /\ handles = [n \in H5Names \cup N5Names |-> Closed]
    /\ flast = OCall("none", "", "", "none", FALSE)
    /\ file = 0 /\ handle = 0 /\ written = 0 /\ nwrites = 0
    /\ heap = <<>> /\ objs = <<>> /\ live = {} /\ alast = 0

OpenCremiFile == do_CremiFile /\ UNCHANGED avars

OpenCremiN5 == do_CremiN5 /\ UNCHANGED avars

Close == do_close /\ UNCHANGED avars

NextOpen == OpenCremiFile \/ OpenCremiN5 \/ Close

SpecOpen == InitOpen /\ [][NextOpen]_vars

(***************************************************************************)
(* SpecAnn: one Annotations instance and every call on it.                 *)
(***************************************************************************)
AnnAddAnnotation == do_add_annotation("a", Types, OneLocation) /\ UNCHANGED fvars

AnnAddComment == do_add_comment("a") /\ UNCHANGED fvars

AnnSetPartners == do_set_pre_post_partners("a") /\ UNCHANGED fvars

AnnGetAnnotation == do_get_annotation("a") /\ UNCHANGED fvars

AnnSortInPlace == do_sort_in_place("a") /\ UNCHANGED fvars

AnnSortRebind == do_sort_rebind("a") /\ UNCHANGED fvars

NextAnn ==
    \/ AnnAddAnnotation
    \/ AnnAddComment
    \/ AnnSetPartners
    \/ AnnGetAnnotation
    \/ AnnSortInPlace
    \/ AnnSortRebind

SpecAnn == InitAnn /\ [][NextAnn]_vars

(***************************************************************************)
(* SpecSort: an instance and its sorted clone, both mutated afterwards.    *)
(***************************************************************************)
SortAddAnnotation ==
    (\E x \in ObjNames : do_add_annotation(x, OneType, OneLocation)) /\ UNCHANGED fvars

SortAddComment == (\E x \in ObjNames : do_add_comment(x)) /\ UNCHANGED fvars

SortSetPartners == (\E x \in ObjNames : do_set_pre_post_partners(x)) /\ UNCHANGED fvars

SortInPlace == (\E x \in ObjNames : do_sort_in_place(x)) /\ UNCHANGED fvars

SortCopy == (\E x \in ObjNames, y \in ObjNames : do_sort(x, y)) /\ UNCHANGED fvars

NextSort ==
    \/ SortAddAnnotation
    \/ SortAddComment
    \/ SortSetPartners
    \/ SortInPlace
    \/ SortCopy

SpecSort == InitAnn /\ [][NextSort]_vars

(***************************************************************************)
(* Properties of Annotations.                                              *)
(***************************************************************************)
Consistent(v) ==
    /\ \A i \in DOMAIN v.ids : v.ids[i] \in DOMAIN v.types /\ v.ids[i] \in DOMAIN v.locations
    /\ DOMAIN v.comments \subseteq Range(v.ids)
    /\ \A k \in DOMAIN v.pre_post_partners :
          /\ v.pre_post_partners[k][1] \in Range(v.ids)
          /\ v.pre_post_partners[k][2] \in Range(v.ids)

\* C4: after any sequence of add_annotation, add_comment,
\* set_pre_post_partners and sort calls, failing ones included, every id of
\* the id sequence has a type and a location, every comment key is an id of
\* the sequence, and both ids of every partner link are ids of the sequence.
C4_Consistent == \A x \in live : Consistent(Obj(x))

\* a call has just failed on an instance that holds a comment and a link
C4_Witness ==
    /\ alast.raised
    /\ DOMAIN Obj("a").comments # {}
    /\ Obj("a").pre_post_partners # <<>>
    /\ Len(Obj("a").ids) = 2

\* C5: add_comment, set_pre_post_partners and get_annotation with an id
\* that was never passed to add_annotation raise and leave the instance as
\* it was; a known pre_id with an unknown post_id appends no link.
C5_NotFound ==
    [][(/\ alast'.op \in {"add_comment", "set_pre_post_partners", "get_annotation"}
        /\ \E i \in DOMAIN alast'.args : alast'.args[i] \notin Range(Obj(alast'.obj).ids))
       => (/\ alast'.raised
           /\ Load(heap', objs'[alast'.obj]) = Obj(alast'.obj))]_vars

\* set_pre_post_partners has failed on a known pre_id and an unknown post_id
C5_Witness ==
    /\ alast.op = "set_pre_post_partners"
    /\ alast.raised
    /\ alast.args[1] \in Range(Obj("a").ids)
    /\ alast.args[2] \notin Range(Obj("a").ids)

Count(s, e) == Cardinality({i \in DOMAIN s : s[i] = e})

IsPermutation(s, t) == Len(s) = Len(t) /\ \A e \in Range(s) \cup Range(t) : Count(s, e) = Count(t, e)

IsSorted(v, key_fn, reverse) ==
    \A i \in DOMAIN v.ids : \A j \in DOMAIN v.ids :
        i < j => IF reverse
                 THEN full_key(v, key_fn, v.ids[i]) >= full_key(v, key_fn, v.ids[j])
                 ELSE full_key(v, key_fn, v.ids[i]) <= full_key(v, key_fn, v.ids[j])

\* w is v with its ids reordered by the key, everything else the same
SortedFrom(w, v, key_fn, reverse) ==
    /\ IsPermutation(w.ids, v.ids)
    /\ IsSorted(w, key_fn, reverse)
    /\ [w EXCEPT !.ids = v.ids] = v

\* C6: sort with in_place=False leaves the receiver as it was and returns
\* a copy that shares nothing with it: a later call on one of the two
\* leaves the other unchanged.  sort with in_place=True reorders the
\* receiver's id sequence and returns nothing.
C6_SortFrame ==
    [][LET x == alast'.obj
           old == Obj(x)
           new == Load(heap', objs'[x])
           others == live \ {x}
       IN IF alast'.op = "sort" /\ ~alast'.args[3]
          THEN LET y == alast'.ret[1]
               IN /\ new = old
                  /\ y \in live'
                  /\ SortedFrom(Load(heap', objs'[y]), old, alast'.args[1], alast'.args[2])
                  /\ \A z \in others \ {y} : Load(heap', objs'[z]) = Obj(z)
          ELSE /\ \A z \in others : Load(heap', objs'[z]) = Obj(z)
               /\ alast'.op = "sort" =>
                     /\ alast'.ret = <<>>
                     /\ SortedFrom(new, old, alast'.args[1], alast'.args[2])]_vars

\* the clone, sorted while the original is not, has just taken a comment
\* the original does not have
C6_Witness ==
    /\ live = {"a", "b"}
    /\ Obj("a").ids = <<2, 1>>
    /\ Obj("b").ids = <<1, 2>>
    /\ alast.op = "add_comment" /\ alast.obj = "b" /\ ~alast.raised
    /\ DOMAIN Obj("a").comments = {}
    /\ DOMAIN Obj("b").comments # {}

(***************************************************************************)
(* Properties of the dataset write and of the axis order.                  *)
(***************************************************************************)
Compatible(f, path, dtype, data) ==
    /\ path \in DOMAIN f.ds
    /\ f.ds[path].dtype = dtype
    /\ f.ds[path].shape = data.shape

\* C1: a dataset write to a path that holds a dataset of the same element
\* type and shape only overwrites in place: no delete and no create-dataset
\* call is issued, nothing is raised, and the dataset then holds the data of
\* this write.
C1_CompatibleOverwriteOnly ==
    [][(/\ flast'.op = "write_volume"
        /\ Compatible(file, flast'.path, flast'.dtype, flast'.input[1].data))
       => (/\ flast'.trace = <<"OVERWRITE_IN_PLACE">>
           /\ flast'.err = "none"
           /\ flast'.path \in DOMAIN file'.ds
           /\ file'.ds[flast'.path].data = flast'.input[1].data.flat)]_vars

Triples == Resolutions \cup Offsets \cup Locations

ZYX(t) == <<t[3], t[2], t[1]>>

Stored(backend, t) == IF backend = "B" THEN ZYX(t) ELSE t

C8_ChunksClamped ==
    handle.backend = "B" =>
        \A p \in DOMAIN file.ds :
            \A i \in DOMAIN file.ds[p].chunks.dims :
                file.ds[p].chunks.dims[i] <= file.ds[p].shape[i]

(***************************************************************************)
(* Properties of the annotations in the container.                         *)
(***************************************************************************)
SameAnnotations(r, w) ==
    /\ Range(r.ids) = Range(w.ids)
    /\ \A id \in Range(w.ids) :
          /\ r.types[id] = w.types[id]
          /\ r.locations[id] = w.locations[id]
    /\ r.offset = w.offset
    /\ r.comments = w.comments
    /\ r.pre_post_partners = w.pre_post_partners

\* C3: write_annotations and then read_annotations on a new container give
\* back the ids, the type and location of each id, the offset, the comments
\* and the partner links in order, for every set of N >= 0 annotations.
C3_RoundTrip ==
    (flast.op = "read_annotations" /\ nwrites = "one") =>
        /\ flast.err = "none"
        /\ SameAnnotations(flast.ret[1], written[1])

\* C10: after several write_annotations calls on one container,
\* read_annotations succeeds and returns the set written last, with no id,
\* comment or link of a set written before.
C10_LastWriteWins ==
    (flast.op = "read_annotations" /\ nwrites = "many") =>
        /\ flast.err = "none"
        /\ flast.ret[1].ids = written[1].ids
        /\ SameAnnotations(flast.ret[1], written[1])

WriteCapable == Modes \ {"r"}

\* C9: opening a CremiFile in any mode that permits writing sets
\* file_format to "0.2" at the root, opening it read-only writes no
\* attribute, and constructing a CremiN5 always sets it.
C9_FormatVersion ==
    /\ (flast.op = "CremiFile" /\ flast.err = "none") =>
          /\ flast.mode \in WriteCapable => HasFormat(disk.store[flast.name])
          /\ flast.mode = "r" => HasFormat(disk.store[flast.name]) = flast.had
    /\ (flast.op = "CremiN5" /\ flast.err = "none") => HasFormat(disk.store[flast.name])

====
